---- MODULE Spec2Model ----
(***************************************************************************)
(* Model of the mssql-uuid package: the 16-byte UUID value, its text and   *)
(* MSSQL mixed-endian codecs, the sql.Scanner dispatch, the NullUUID       *)
(* wrapper, the version-4 generator and the Batch helper.                  *)
(*                                                                         *)
(* Conventions.  A Go byte is an integer in 0..255 and a Go string or      *)
(* []byte is a sequence of such integers (ASCII codes for text).  Go       *)
(* indexes from 0 and TLA+ sequences from 1, so Go's u[6] is u[7] here.    *)
(* An operation with a pointer receiver is an operator that takes the      *)
(* receiver's value and returns a record holding its new value and the     *)
(* returned error; the error nil is the string "nil".                      *)
(***************************************************************************)
EXTENDS Integers, Sequences, FiniteSets

VARIABLES call,      \* codec harness: the last call made on a UUID value
          n,         \* the NullUUID object: [UUID, Valid]
          calls,     \* number of calls made on n
          last,      \* the last call made on n
          gen,       \* generator harness: the last generation
          uuids,     \* Batch: the slice argument
          size,      \* Batch: the size argument
          i,         \* Batch: the loop variable
          invoked,   \* Batch: the chunks onBatch was called with, in order
          results,   \* Batch: what onBatch returned, in order
          pc,        \* Batch: position of the call
          ret        \* Batch: the value Batch returned

vars == <<call, n, calls, last, gen, uuids, size, i, invoked, results, pc, ret>>

nil == "nil"

----------------------------------------------------------------------------
(* Byte array core                                                         *)

Size == 16

CanonicalSize == 36

V4 == 1

VariantNCS == 0

VariantRFC4122 == 1

VariantMicrosoft == 2

VariantFuture == 3

Dash == 45

NilUUID == [k \in 1..Size |-> 0]

Equal(u1, u2) == u1 = u2

Version(u) == u[7] \div 16

Variant(u) ==
    IF u[9] \div 128 = 0 THEN VariantNCS
    ELSE IF u[9] \div 64 = 2 THEN VariantRFC4122
    ELSE IF u[9] \div 32 = 6 THEN VariantMicrosoft
    ELSE VariantFuture

\* u[6] = (u[6] & 0x0f) | (v << 4), in byte arithmetic
SetVersion(u, v) == [u EXCEPT ![7] = (u[7] % 16) + ((v * 16) % 256)]

SetVariant(u, v) ==
    IF v = VariantNCS THEN [u EXCEPT ![9] = u[9] % 128]
    ELSE IF v = VariantRFC4122 THEN [u EXCEPT ![9] = (u[9] % 64) + 128]
    ELSE IF v = VariantMicrosoft THEN [u EXCEPT ![9] = (u[9] % 32) + 192]
    ELSE [u EXCEPT ![9] = (u[9] % 32) + 224]

----------------------------------------------------------------------------
(* encoding/hex as the text codec uses it                                  *)

\* hextable = "0123456789abcdef"
HexChar(d) == IF d < 10 THEN 48 + d ELSE 87 + d

\* hex.Encode: two lower-case digits per byte, high nibble first
HexEncode(bs) ==
    [k \in 1..(2 * Len(bs)) |->
        IF k % 2 = 1 THEN HexChar(bs[(k + 1) \div 2] \div 16)
                     ELSE HexChar(bs[k \div 2] % 16)]

\* reverseHexTable: the digit's value, 255 for a byte that is no hex digit
FromHexChar(c) ==
    IF c >= 48 /\ c <= 57 THEN c - 48
    ELSE IF c >= 97 /\ c <= 102 THEN c - 87
    ELSE IF c >= 65 /\ c <= 70 THEN c - 55
    ELSE 255

BadPair(src, j) == FromHexChar(src[2 * j - 1]) > 15 \/ FromHexChar(src[2 * j]) > 15

\* The number of byte pairs hex.Decode decodes before it stops.
DecodedPairs(src) ==
    LET bad == {j \in 1..(Len(src) \div 2) : BadPair(src, j)}
    IN  IF bad = {} THEN Len(src) \div 2
        ELSE (CHOOSE j \in bad : \A m \in bad : j <= m) - 1

HexDecodeAtomic(dst, src) ==
    LET np == DecodedPairs(src)
        ok == np = Len(src) \div 2 /\ Len(src) % 2 = 0
    IN  [dst |-> [k \in 1..Len(dst) |->
                    IF ok /\ k <= np
                    THEN 16 * FromHexChar(src[2 * k - 1]) + FromHexChar(src[2 * k])
                    ELSE dst[k]],
         err |-> IF ok THEN nil ELSE "hex"]

\* hex.Decode(dst, src): writes dst[0], dst[1], ... as it goes and stops at the
\* first pair holding a byte that is no hex digit, leaving what it wrote.
HexDecode(dst, src) ==
    LET np == DecodedPairs(src)
    IN  [dst |-> [k \in 1..Len(dst) |->
                    IF k <= np
                    THEN 16 * FromHexChar(src[2 * k - 1]) + FromHexChar(src[2 * k])
                    ELSE dst[k]],
         err |-> IF np < Len(src) \div 2 \/ Len(src) % 2 = 1 THEN "hex" ELSE nil]

----------------------------------------------------------------------------
(* Text codec                                                              *)

StringDupGroup(u) ==
    HexEncode(SubSeq(u, 1, 4)) \o <<Dash>> \o
    HexEncode(SubSeq(u, 5, 6)) \o <<Dash>> \o
    HexEncode(SubSeq(u, 5, 6)) \o <<Dash>> \o
    HexEncode(SubSeq(u, 9, 10)) \o <<Dash>> \o
    HexEncode(SubSeq(u, 11, 16))

String(u) ==
    HexEncode(SubSeq(u, 1, 4)) \o <<Dash>> \o
    HexEncode(SubSeq(u, 5, 6)) \o <<Dash>> \o
    HexEncode(SubSeq(u, 7, 8)) \o <<Dash>> \o
    HexEncode(SubSeq(u, 9, 10)) \o <<Dash>> \o
    HexEncode(SubSeq(u, 11, 16))

byteGroups == <<8, 4, 4, 4, 12>>

\* The loop of UnmarshalText from group g on: soff bytes of src and doff
\* bytes of dst are already consumed.
RECURSIVE DecodeGroups(_, _, _, _, _)
DecodeGroups(u, t, g, soff, doff) ==
    IF g > Len(byteGroups) THEN [u |-> u, err |-> nil]
    ELSE LET bg == byteGroups[g]
             s  == IF g > 1 THEN soff + 1 ELSE soff
             r  == HexDecode(SubSeq(u, doff + 1, doff + bg \div 2),
                             SubSeq(t, s + 1, s + bg))
             u2 == [k \in 1..Size |->
                      IF k > doff /\ k <= doff + bg \div 2 THEN r.dst[k - doff] ELSE u[k]]
         IN  IF r.err # nil THEN [u |-> u2, err |-> r.err]
             ELSE DecodeGroups(u2, t, g + 1, s + bg, doff + bg \div 2)

UnmarshalTextNoDash18(u, t) ==
    IF Len(t) = CanonicalSize
    THEN IF t[9] # Dash \/ t[14] # Dash \/ t[24] # Dash
         THEN [u |-> u, err |-> "format"]
         ELSE DecodeGroups(u, t, 1, 0, 0)
    ELSE [u |-> u, err |-> "length"]

UnmarshalText(u, t) ==
    IF Len(t) = CanonicalSize
    THEN IF t[9] # Dash \/ t[14] # Dash \/ t[19] # Dash \/ t[24] # Dash
         THEN [u |-> u, err |-> "format"]
         ELSE DecodeGroups(u, t, 1, 0, 0)
    ELSE [u |-> u, err |-> "length"]

\* var u UUID (the zero value); err = u.UnmarshalText(input); return
FromString(input) == UnmarshalText(NilUUID, input)

FromStringOrNil(input) ==
    LET r == FromString(input)
    IN  IF r.err # nil THEN NilUUID ELSE r.u

UnmarshalBinary(u, data) ==
    IF Len(data) # Size THEN [u |-> u, err |-> "binary length"]
    ELSE [u |-> [k \in 1..Size |-> data[k]], err |-> nil]

----------------------------------------------------------------------------
(* Mixed-endian codec                                                      *)

LittleEndian16(d, o) == d[o + 1] + 256 * d[o + 2]

\* A uint32 is held as its two 16-bit halves [hi, lo] (value 65536 * hi + lo):
\* TLC's integers are 32-bit signed and cannot hold it.
LittleEndian32(d, o) ==
    [hi |-> d[o + 3] + 256 * d[o + 4], lo |-> d[o + 1] + 256 * d[o + 2]]

BigEndian16(d, o) == 256 * d[o + 1] + d[o + 2]

BigEndian32(d, o) ==
    [hi |-> 256 * d[o + 1] + d[o + 2], lo |-> 256 * d[o + 3] + d[o + 4]]

RECURSIVE Pow16(_)
Pow16(k) == IF k = 0 THEN 1 ELSE 16 * Pow16(k - 1)

\* fmt's %0<w>x of an unsigned value below 16^w: w lower-case digits
FmtHex(v, w) == [k \in 1..w |-> HexChar((v \div Pow16(w - k)) % 16)]

\* %08x of a uint32: the digits of the high half, then those of the low half
FmtHex32(v) == FmtHex(v.hi, 4) \o FmtHex(v.lo, 4)

SetFromMSSQLBytesAllBig(u, data) ==
    IF Len(data) < Size THEN [u |-> u, err |-> "panic"]
    ELSE LET a == LittleEndian32(data, 0)
             b == LittleEndian16(data, 4)
             c == BigEndian16(data, 6)
             d == BigEndian16(data, 8)
             e == BigEndian16(data, 10)
             f == BigEndian32(data, 12)
             uid == FmtHex32(a) \o <<Dash>> \o FmtHex(b, 4) \o <<Dash>> \o
                    FmtHex(c, 4) \o <<Dash>> \o FmtHex(d, 4) \o <<Dash>> \o
                    FmtHex(e, 4) \o FmtHex32(f)
         IN  UnmarshalText(u, uid)

\* The integer reads index data[0..15]: a shorter slice panics.
SetFromMSSQLBytes(u, data) ==
    IF Len(data) < Size THEN [u |-> u, err |-> "panic"]
    ELSE LET a == LittleEndian32(data, 0)
             b == LittleEndian16(data, 4)
             c == LittleEndian16(data, 6)
             d == BigEndian16(data, 8)
             e == BigEndian16(data, 10)
             f == BigEndian32(data, 12)
             uid == FmtHex32(a) \o <<Dash>> \o FmtHex(b, 4) \o <<Dash>> \o
                    FmtHex(c, 4) \o <<Dash>> \o FmtHex(d, 4) \o <<Dash>> \o
                    FmtHex(e, 4) \o FmtHex32(f)
         IN  UnmarshalText(u, uid)

----------------------------------------------------------------------------
(* Storage boundary.  A value of type any is [kind, val]: kind "bytes"     *)
(* ([]byte), "string", "nil" (the nil interface) or "int" (any other type).*)

ScanBinary16(u, src) ==
    IF src.kind = "bytes"
    THEN IF Len(src.val) = Size THEN UnmarshalBinary(u, src.val)
         ELSE UnmarshalText(u, src.val)
    ELSE IF src.kind = "string" THEN UnmarshalText(u, src.val)
    ELSE [u |-> u, err |-> "type"]

Scan(u, src) ==
    IF src.kind = "bytes"
    THEN IF Len(src.val) = Size THEN SetFromMSSQLBytes(u, src.val)
         ELSE UnmarshalText(u, src.val)
    ELSE IF src.kind = "string" THEN UnmarshalText(u, src.val)
    ELSE [u |-> u, err |-> "type"]

----------------------------------------------------------------------------
(* NullUUID: a value of the wrapper is [UUID, Valid].                      *)

JsonNull == <<110, 117, 108, 108>>

\* json.Unmarshal(body, &value) for a string value, on bodies without white
\* space around the JSON value and without escapes in a string: null leaves the
\* value "", a string literal gives its content, any other JSON value is a type
\* error and anything else a syntax error.
JsonUnmarshalString(body) ==
    IF body = JsonNull THEN [value |-> <<>>, err |-> nil]
    ELSE IF /\ Len(body) >= 2
            /\ body[1] = 34
            /\ body[Len(body)] = 34
            /\ \A k \in 2..(Len(body) - 1) : body[k] >= 32 /\ body[k] \notin {34, 92}
         THEN [value |-> SubSeq(body, 2, Len(body) - 1), err |-> nil]
    ELSE IF Len(body) >= 1 /\ \A k \in 1..Len(body) : body[k] >= 49 /\ body[k] <= 57
         THEN [value |-> <<>>, err |-> "json type"]
    ELSE [value |-> <<>>, err |-> "json syntax"]

NullScan(nu, src) ==
    IF src.kind = "nil"
    THEN [n |-> [UUID |-> NilUUID, Valid |-> FALSE], err |-> nil]
    ELSE LET r == Scan(nu.UUID, src)
         IN  [n |-> [UUID |-> r.u, Valid |-> TRUE], err |-> r.err]

NullUnmarshalJSON(nu, body) ==
    LET j == JsonUnmarshalString(body)
    IN  IF j.err # nil THEN [n |-> nu, err |-> j.err]
        ELSE IF Len(j.value) < CanonicalSize
             THEN [n |-> [nu EXCEPT !.Valid = FALSE], err |-> nil]
        ELSE LET r == UnmarshalText(nu.UUID, j.value)
             IN  [n |-> [UUID |-> r.u, Valid |-> TRUE], err |-> r.err]

----------------------------------------------------------------------------
(* Generator.  The random source is [n, bytes]: io.ReadFull gets n of the  *)
(* 16 bytes it asks for, and fails when n < 16.                            *)

GeneratorNewV4(rnd) ==
    IF rnd.n < Size
    THEN [u |-> NilUUID, err |-> IF rnd.n = 0 THEN "EOF" ELSE "unexpected EOF"]
    ELSE [u |-> SetVariant(SetVersion(rnd.bytes, V4), VariantRFC4122), err |-> nil]

\* var uuid, _ = generator.NewV4(); return uuid
NewV4(rnd) == GeneratorNewV4(rnd).u

----------------------------------------------------------------------------
(* Batch                                                                   *)

ChunkEndNoClamp(lo, sz, len) == lo + sz

\* end = i + size; if end > len(uuids) { end = len(uuids) }
ChunkEnd(lo, sz, len) == IF lo + sz > len THEN len ELSE lo + sz

\* uuids[lo:hi] is out of range (and panics) unless lo <= hi <= len(uuids)
SliceOutOfRange(lo, hi, len) == hi < lo \/ hi > len

----------------------------------------------------------------------------
(* Inputs of the codec harness                                             *)

\* 6ba7b810-9dad-11d1-80b4-00c04fd430c8
SampleUUID == <<107, 167, 184, 16, 157, 173, 17, 209, 128, 180, 0, 192, 79, 212, 48, 200>>

\* The same identifier as SQL Server stores it: 10 b8 a7 6b ad 9d d1 11 80 b4 ...
SampleWire == <<16, 184, 167, 107, 173, 157, 209, 17, 128, 180, 0, 192, 79, 212, 48, 200>>

\* "6ba7b810-9dad-11d1-80b4-00c04fd430c8" in ASCII
SampleText ==
    <<54, 98, 97, 55, 98, 56, 49, 48, 45, 57, 100, 97, 100, 45, 49, 49, 100, 49, 45,
      56, 48, 98, 52, 45, 48, 48, 99, 48, 52, 102, 100, 52, 51, 48, 99, 56>>

\* 01234567-89ab-cdef-fedc-ba9876543210
RampUUID == <<1, 35, 69, 103, 137, 171, 205, 239, 254, 220, 186, 152, 118, 84, 50, 16>>

BaseUUIDs == {NilUUID, SampleUUID, RampUUID}

\* Bytes at the nibble, sign and variant boundaries.
ByteVals == {0, 10, 15, 16, 128, 171, 192, 224, 255}

\* Every base identifier with one byte replaced.
UUIDs == {[b EXCEPT ![p] = v] : b \in BaseUUIDs, p \in 1..Size, v \in ByteVals}

\* - / 0 9 : @ A F G ` a f g z and the space: the hex digits' range ends and
\* their neighbours.
CharVals == {45, 47, 48, 57, 58, 64, 65, 70, 71, 96, 97, 102, 103, 122, 32}

Upper(t) == [k \in 1..Len(t) |-> IF t[k] >= 97 /\ t[k] <= 102 THEN t[k] - 32 ELSE t[k]]

Texts ==
    {HexEncode(SubSeq(b, 1, 4)) \o <<Dash>> \o HexEncode(SubSeq(b, 5, 6)) \o <<Dash>> \o
     HexEncode(SubSeq(b, 7, 8)) \o <<Dash>> \o HexEncode(SubSeq(b, 9, 10)) \o <<Dash>> \o
     HexEncode(SubSeq(b, 11, 16)) : b \in BaseUUIDs}
    \cup {Upper(SampleText)}
    \cup {[SampleText EXCEPT ![p] = c] : p \in 1..CanonicalSize, c \in CharVals}
    \cup {[SampleText EXCEPT ![p] = 103, ![q] = 122] : p, q \in {1, 8, 9, 12, 19, 35, 36}}
    \cup {SubSeq(SampleText, 1, k) : k \in 0..(CanonicalSize - 1)}
    \cup {SampleText \o <<c>> : c \in {48, 45}}
    \cup {<<48>> \o SampleText}
    \cup {SubSeq(SampleText, 1, 8) \o SubSeq(SampleText, 10, CanonicalSize)}
    \cup {[k \in 1..CanonicalSize |-> IF k <= 8 THEN 122 ELSE SampleText[k]]}
    \cup {[SampleText EXCEPT ![8] = 45, ![9] = 48]}

Receivers == {NilUUID, RampUUID}

\* 16-byte slices as a driver hands them over
WireInputs == UUIDs \cup {SampleWire}

Sources ==
    {[kind |-> "bytes", val |-> d] : d \in WireInputs}
    \cup {[kind |-> "bytes", val |-> t] : t \in Texts}
    \cup {[kind |-> "string", val |-> t] : t \in Texts}
    \cup {[kind |-> "nil", val |-> <<>>], [kind |-> "int", val |-> <<>>]}

----------------------------------------------------------------------------
(* Codec harness: one call per run on a fresh value (the calls are         *)
(* independent of each other), recorded in call; the string String         *)
(* produced may then be parsed back.                                       *)

NoCall == [op |-> "none", recv |-> NilUUID, arg |-> <<>>, u |-> NilUUID,
           err |-> nil, str |-> <<>>]

codecRest == <<n, calls, last, gen, uuids, size, i, invoked, results, pc, ret>>

DoString(b) ==
    /\ call.op = "none"
    /\ call' = [op |-> "String", recv |-> b, arg |-> <<>>, u |-> b, err |-> nil,
                str |-> String(b)]
    /\ UNCHANGED codecRest

\* FromString(u.String()) for the u of the last call
DoParseString ==
    /\ call.op = "String"
    /\ LET r == FromString(call.str)
       IN  call' = [op |-> "ParseString", recv |-> call.recv, arg |-> call.str,
                    u |-> r.u, err |-> r.err, str |-> <<>>]
    /\ UNCHANGED codecRest

DoUnmarshalText(recv, t) ==
    /\ call.op = "none"
    /\ LET r == UnmarshalText(recv, t)
       IN  call' = [op |-> "UnmarshalText", recv |-> recv, arg |-> t, u |-> r.u,
                    err |-> r.err, str |-> <<>>]
    /\ UNCHANGED codecRest

DoFromString(t) ==
    /\ call.op = "none"
    /\ LET r == FromString(t)
       IN  call' = [op |-> "FromString", recv |-> NilUUID, arg |-> t, u |-> r.u,
                    err |-> r.err, str |-> <<>>]
    /\ UNCHANGED codecRest

DoFromStringOrNil(t) ==
    /\ call.op = "none"
    /\ call' = [op |-> "FromStringOrNil", recv |-> NilUUID, arg |-> t,
                u |-> FromStringOrNil(t), err |-> nil, str |-> <<>>]
    /\ UNCHANGED codecRest

DoSetFromMSSQLBytes(recv, d) ==
    /\ call.op = "none"
    /\ LET r == SetFromMSSQLBytes(recv, d)
       IN  call' = [op |-> "SetFromMSSQLBytes", recv |-> recv, arg |-> d, u |-> r.u,
                    err |-> r.err, str |-> <<>>]
    /\ UNCHANGED codecRest

DoScan(recv, src) ==
    /\ call.op = "none"
    /\ LET r == Scan(recv, src)
       IN  call' = [op |-> "Scan", recv |-> recv, arg |-> src, u |-> r.u,
                    err |-> r.err, str |-> <<>>]
    /\ UNCHANGED codecRest

InitCodec ==
    /\ call = NoCall
    /\ n = [UUID |-> NilUUID, Valid |-> FALSE]
    /\ calls = 0
    /\ last = NoCall
    /\ gen = NoCall
    /\ uuids = <<>>
    /\ size = 1
    /\ i = 0
    /\ invoked = <<>>
    /\ results = <<>>
    /\ pc = "idle"
    /\ ret = nil

NextCodec ==
    \/ \E b \in UUIDs : DoString(b)
    \/ DoParseString
    \/ \E recv \in Receivers, t \in Texts : DoUnmarshalText(recv, t)
    \/ \E t \in Texts : DoFromString(t)
    \/ \E t \in Texts : DoFromStringOrNil(t)
    \/ \E recv \in Receivers, d \in WireInputs \cup {SubSeq(SampleWire, 1, 15)} :
           DoSetFromMSSQLBytes(recv, d)
    \/ \E recv \in Receivers, src \in Sources : DoScan(recv, src)

SpecCodec == InitCodec /\ [][NextCodec]_vars

----------------------------------------------------------------------------
(* What the claims say of the codecs, stated without the model's operators *)

HyphenPos == {9, 14, 19, 24}

IsLowerHex(c) == (c >= 48 /\ c <= 57) \/ (c >= 97 /\ c <= 102)

IsHex(c) == IsLowerHex(c) \/ (c >= 65 /\ c <= 70)

HexVal(c) == IF c <= 57 THEN c - 48 ELSE IF c >= 97 THEN c - 87 ELSE c - 55

WellFormed(t) ==
    /\ Len(t) = 36
    /\ \A k \in 1..36 : IF k \in HyphenPos THEN t[k] = 45 ELSE IsHex(t[k])

\* Position in the canonical text of the first digit of byte k (both from 1).
DigitPos(k) ==
    IF k <= 4 THEN 2 * k - 1
    ELSE IF k <= 6 THEN 2 * k
    ELSE IF k <= 8 THEN 2 * k + 1
    ELSE IF k <= 10 THEN 2 * k + 2
    ELSE 2 * k + 3

\* d3 d2 d1 d0  d5 d4  d7 d6  d8 ... d15
MixedEndian(d) ==
    <<d[4], d[3], d[2], d[1], d[6], d[5], d[8], d[7],
      d[9], d[10], d[11], d[12], d[13], d[14], d[15], d[16]>>

\* C1: the string String produces has 36 characters, hyphens exactly at offsets
\* 8, 13, 18 and 23 and lower-case hex digits elsewhere, and parsing it succeeds
\* and gives back the identifier byte for byte.
C1_TextRoundTrip ==
    /\ call.op = "String" =>
          /\ Len(call.str) = 36
          /\ \A k \in 1..36 :
                IF k \in HyphenPos THEN call.str[k] = 45 ELSE IsLowerHex(call.str[k])
    /\ call.op = "ParseString" => call.err = nil /\ call.u = call.recv

C1_Witness ==
    /\ call.op = "ParseString"
    /\ call.recv = SampleUUID
    /\ call.arg = SampleText
    /\ call.u = SampleUUID

\* C2: SetFromMSSQLBytes of any 16 bytes d succeeds and yields the canonical bytes
\* d3 d2 d1 d0 d5 d4 d7 d6 d8 .. d15.
C2_MixedEndianDecode ==
    (call.op = "SetFromMSSQLBytes" /\ Len(call.arg) = 16) =>
        call.err = nil /\ call.u = MixedEndian(call.arg)

C2_Witness ==
    /\ call.op = "SetFromMSSQLBytes"
    /\ call.arg = SampleWire
    /\ call.err = nil
    /\ call.u = SampleUUID

C5_ParseRejects ==
    call.op \in {"UnmarshalText", "FromString"} =>
        (call.err = nil <=> WellFormed(call.arg))

C5_Witness ==
    /\ call.op = "FromString"
    /\ call.arg = [SampleText EXCEPT ![8] = 45, ![9] = 48]
    /\ call.err # nil

\* The text a call handed to the text codec, <<>> when it handed none.
TextArg ==
    IF call.op \in {"UnmarshalText", "FromString", "FromStringOrNil"} THEN call.arg
    ELSE IF call.op = "Scan" /\ call.arg.kind = "string" THEN call.arg.val
    ELSE IF call.op = "Scan" /\ call.arg.kind = "bytes" /\ Len(call.arg.val) # 16
         THEN call.arg.val
    ELSE <<>>

UsesTextCodec ==
    \/ call.op \in {"UnmarshalText", "FromString"}
    \/ call.op = "Scan" /\ call.arg.kind = "string"
    \/ call.op = "Scan" /\ call.arg.kind = "bytes" /\ Len(call.arg.val) # 16

\* C9 as claimed: a failed parse leaves the receiver's 16 bytes as they were, so
\* FromString returns the Nil identifier with every error.
C9_ErrorLeavesReceiver ==
    (UsesTextCodec /\ call.err # nil) => call.u = call.recv

\* C9 as amended: a failed parse leaves the receiver untouched when the length or
\* a hyphen is wrong; when a character is no hex digit, the bytes before the one
\* holding the first such character hold the decoded input and the bytes from it
\* on are as they were.  FromStringOrNil returns Nil for every rejected input.
C9_ErrorKeepsDecodedPrefix ==
    /\ (UsesTextCodec /\ call.err # nil) =>
          LET t == TextArg
          IN  IF Len(t) # 36 \/ \E k \in HyphenPos : t[k] # 45
              THEN call.u = call.recv
              ELSE LET bad == {k \in 1..16 : ~IsHex(t[DigitPos(k)])
                                              \/ ~IsHex(t[DigitPos(k) + 1])}
                   IN  /\ bad # {}
                       /\ \A k \in 1..16 :
                             call.u[k] =
                                 IF \A b \in bad : k < b
                                 THEN 16 * HexVal(t[DigitPos(k)]) + HexVal(t[DigitPos(k) + 1])
                                 ELSE call.recv[k]
    /\ (call.op = "FromStringOrNil" /\ ~WellFormed(call.arg)) => call.u = NilUUID

C9_Witness ==
    /\ call.op = "UnmarshalText"
    /\ call.recv = RampUUID
    /\ call.arg = [SampleText EXCEPT ![36] = 103]
    /\ call.err # nil
    /\ call.u = [SampleUUID EXCEPT ![16] = RampUUID[16]]

----------------------------------------------------------------------------
(* NullUUID harness: up to MaxCalls calls on one wrapper, which starts as  *)
(* the zero value.                                                         *)

MaxCalls == 2

Quoted(t) == <<34>> \o t \o <<34>>

NullSources ==
    {[kind |-> "nil", val |-> <<>>], [kind |-> "int", val |-> <<>>],
     [kind |-> "bytes", val |-> SampleWire], [kind |-> "bytes", val |-> NilUUID],
     [kind |-> "bytes", val |-> SampleText],
     [kind |-> "string", val |-> SampleText],
     [kind |-> "string", val |-> [SampleText EXCEPT ![36] = 103]],
     [kind |-> "string", val |-> SubSeq(SampleText, 1, 35)],
     [kind |-> "bytes", val |-> RampUUID],
     [kind |-> "string", val |-> String(RampUUID)],
     [kind |-> "string", val |-> [SampleText EXCEPT ![10] = 103]]}

Bodies ==
    {JsonNull, <<49>>, <<123>>,
     Quoted(<<>>), Quoted(SubSeq(SampleText, 1, 35)),
     Quoted(SampleText), Quoted(Upper(SampleText)),
     Quoted([SampleText EXCEPT ![36] = 103]),
     Quoted([SampleText EXCEPT ![1] = 122]),
     Quoted([SampleText EXCEPT ![19] = 48]),
     Quoted(SampleText \o <<48>>), Quoted(String(RampUUID))}

nullRest == <<call, gen, uuids, size, i, invoked, results, pc, ret>>

DoNullScan(src) ==
    /\ calls < MaxCalls
    /\ LET r == NullScan(n, src)
       IN  /\ n' = r.n
           /\ last' = [op |-> "Scan", pre |-> n, arg |-> src, err |-> r.err]
    /\ calls' = calls + 1
    /\ UNCHANGED nullRest

DoNullUnmarshalJSON(body) ==
    /\ calls < MaxCalls
    /\ LET r == NullUnmarshalJSON(n, body)
       IN  /\ n' = r.n
           /\ last' = [op |-> "UnmarshalJSON", pre |-> n, arg |-> body, err |-> r.err]
    /\ calls' = calls + 1
    /\ UNCHANGED nullRest

InitNull ==
    /\ call = NoCall
    /\ n = [UUID |-> NilUUID, Valid |-> FALSE]
    /\ calls = 0
    /\ last = [op |-> "none", pre |-> n, arg |-> <<>>, err |-> nil]
    /\ gen = NoCall
    /\ uuids = <<>>
    /\ size = 1
    /\ i = 0
    /\ invoked = <<>>
    /\ results = <<>>
    /\ pc = "idle"
    /\ ret = nil

NextNull ==
    \/ \E src \in NullSources : DoNullScan(src)
    \/ \E body \in Bodies : DoNullUnmarshalJSON(body)

SpecNull == InitNull /\ [][NextNull]_vars

\* C6: UnmarshalJSON of null, whatever the wrapper held, returns no error and
\* leaves Valid false and the identifier Nil, as Scan(nil) does.
C6_JsonNullResets ==
    (last.op = "UnmarshalJSON" /\ last.arg = <<110, 117, 108, 108>>) =>
        /\ last.err = nil
        /\ n.Valid = FALSE
        /\ n.UUID = NilUUID

\* The last call was UnmarshalJSON of a JSON string of at least 36 characters.
LongJsonString ==
    /\ last.op = "UnmarshalJSON"
    /\ Len(last.arg) >= 38
    /\ last.arg[1] = 34
    /\ last.arg[Len(last.arg)] = 34

\* C8: UnmarshalJSON of a string of at least 36 characters sets Valid on success;
\* when the text codec rejects the string the error is returned and a wrapper
\* that was invalid is still invalid.
C8_JsonValidOnlyOnSuccess ==
    LongJsonString =>
        IF WellFormed(SubSeq(last.arg, 2, Len(last.arg) - 1))
        THEN last.err = nil /\ n.Valid
        ELSE last.err # nil /\ (~last.pre.Valid => ~n.Valid)

----------------------------------------------------------------------------
(* Generator harness: one generation per run.                              *)

RandomSources ==
    {[n |-> Size, bytes |-> b] : b \in UUIDs}
    \cup {[n |-> k, bytes |-> SampleUUID] : k \in 0..(Size - 1)}

genRest == <<call, n, calls, last, uuids, size, i, invoked, results, pc, ret>>

DoGeneratorNewV4(rnd) ==
    /\ gen.op = "none"
    /\ LET r == GeneratorNewV4(rnd)
       IN  gen' = [op |-> "Generator.NewV4", recv |-> NilUUID, arg |-> rnd, u |-> r.u,
                   err |-> r.err, str |-> <<>>]
    /\ UNCHANGED genRest

DoNewV4(rnd) ==
    /\ gen.op = "none"
    /\ gen' = [op |-> "NewV4", recv |-> NilUUID, arg |-> rnd, u |-> NewV4(rnd),
               err |-> nil, str |-> <<>>]
    /\ UNCHANGED genRest

NextGen ==
    \/ \E rnd \in RandomSources : DoGeneratorNewV4(rnd)
    \/ \E rnd \in RandomSources : DoNewV4(rnd)

InitGen == InitCodec

SpecGen == InitGen /\ [][NextGen]_vars

\* C4: an identifier returned by a generation whose random source supplied its
\* 16 bytes has Version() = 4 and Variant() = RFC4122.
C4_GeneratedIsV4 ==
    (gen.op \in {"Generator.NewV4", "NewV4"} /\ gen.arg.n = 16) =>
        Version(gen.u) = 4 /\ Variant(gen.u) = VariantRFC4122

----------------------------------------------------------------------------
(* Batch harness: one call Batch(uuids, size, onBatch); onBatch returns    *)
(* whatever it likes at each invocation.                                   *)

MaxLen == 10

MaxSize == 4

\* Invocations after which a run that does not advance is cut off.
MaxInvoke == MaxLen + 2

IdList(len) == [k \in 1..len |-> [j \in 1..Size |-> k]]

HandlerReturns == {nil, "e1", "e2"}

batchRest == <<call, n, calls, last, gen>>

\* An iteration whose slice expression uuids[i:end] panics.
BatchPanic ==
    /\ pc = "loop"
    /\ i < Len(uuids)
    /\ SliceOutOfRange(i, ChunkEnd(i, size, Len(uuids)), Len(uuids))
    /\ pc' = "panic"
    /\ UNCHANGED <<uuids, size, i, invoked, results, ret>>
    /\ UNCHANGED batchRest

\* An iteration in which onBatch returns e.
BatchIterate(e) ==
    /\ pc = "loop"
    /\ i < Len(uuids)
    /\ Len(invoked) < MaxInvoke
    /\ LET end == ChunkEnd(i, size, Len(uuids))
       IN  /\ ~SliceOutOfRange(i, end, Len(uuids))
           /\ invoked' = Append(invoked, SubSeq(uuids, i + 1, end))
    /\ results' = Append(results, e)
    /\ IF e # nil
       THEN pc' = "done" /\ ret' = e /\ i' = i
       ELSE pc' = "loop" /\ ret' = ret /\ i' = i + size
    /\ UNCHANGED <<uuids, size>>
    /\ UNCHANGED batchRest

\* The loop condition fails: return nil.
BatchReturn ==
    /\ pc = "loop"
    /\ i >= Len(uuids)
    /\ pc' = "done"
    /\ ret' = nil
    /\ UNCHANGED <<uuids, size, i, invoked, results>>
    /\ UNCHANGED batchRest

InitBatch ==
    /\ call = NoCall
    /\ n = [UUID |-> NilUUID, Valid |-> FALSE]
    /\ calls = 0
    /\ last = NoCall
    /\ gen = NoCall
    /\ uuids \in {IdList(len) : len \in 0..MaxLen}
    /\ size \in (-1)..MaxSize
    /\ i = 0
    /\ invoked = <<>>
    /\ results = <<>>
    /\ pc = "loop"
    /\ ret = nil

NextBatch ==
    \/ BatchPanic
    \/ \E e \in HandlerReturns : BatchIterate(e)
    \/ BatchReturn

SpecBatch == InitBatch /\ [][NextBatch]_vars

Min(a, b) == IF a < b THEN a ELSE b

RECURSIVE Flatten(_)
Flatten(ss) == IF ss = <<>> THEN <<>> ELSE Head(ss) \o Flatten(Tail(ss))

\* C7: with size >= 1 the k-th invocation gets uuids[(k-1)*size : min(k*size, len)],
\* so consecutive chunks of exactly size elements but for a shorter last one;
\* no invocation follows one that returned an error, which is what Batch
\* returns; and Batch returns nil only once the chunks cover uuids.
C7_BatchChunks ==
    size >= 1 =>
        /\ pc # "panic"
        /\ Len(results) = Len(invoked)
        /\ \A k \in 1..Len(invoked) :
              /\ invoked[k] = SubSeq(uuids, (k - 1) * size + 1, Min(k * size, Len(uuids)))
              /\ Len(invoked[k]) >= 1
              /\ Len(invoked[k]) <= size
              /\ k < Len(invoked) => Len(invoked[k]) = size
        /\ \A k \in 1..(Len(results) - 1) : results[k] = nil
        /\ (Len(results) >= 1 /\ results[Len(results)] # nil) =>
              pc = "done" /\ ret = results[Len(results)]
        /\ (pc = "done" /\ ret # nil) =>
              Len(results) >= 1 /\ results[Len(results)] = ret
        /\ (pc = "done" /\ ret = nil) =>
              /\ \A k \in 1..Len(results) : results[k] = nil
              /\ Flatten(invoked) = uuids

C7_Witness ==
    /\ Len(uuids) = 10
    /\ size = 3
    /\ pc = "done"
    /\ ret = nil
    /\ Len(invoked) = 4
    /\ <<Len(invoked[1]), Len(invoked[2]), Len(invoked[3]), Len(invoked[4])>> = <<3, 3, 3, 1>>

\* C10: for every size, 0 and negative ones included, Batch never slices out of
\* range, never hands onBatch an empty chunk, and makes at most
\* ceil(len(uuids) / size) invocations.
C10_BatchTerminates ==
    /\ pc # "panic"
    /\ \A k \in 1..Len(invoked) : Len(invoked[k]) >= 1
    /\ size >= 1 => Len(invoked) <= (Len(uuids) + size - 1) \div size
    /\ size < 1 => Len(invoked) = 0

====
